---------------------------- MODULE Spec2Model ----------------------------
(***************************************************************************)
(* Serverless resume parser: the enqueue Lambda (S3 event -> SQS), the     *)
(* resume processor Lambda (SQS batch -> Textract -> parse -> match ->     *)
(* DynamoDB) and the query API Lambda, with the parser and the matching    *)
(* engine as operators over character sequences.                           *)
(*                                                                         *)
(* A Python str is a sequence of one-character strings (ASCII only), a     *)
(* Python dict is a TLA+ function whose domain is the set of its keys, a   *)
(* Python float that is a ratio of small integers is a pair <<num, den>>.  *)
(***************************************************************************)
EXTENDS Integers, Sequences, FiniteSets, TLC

(***************************************************************************)
(* Python str                                                              *)
(***************************************************************************)
\* the characters of code 32..126 in code order; "<96>" holds the place of the
\* grave accent, which a TLA+ string cannot contain
Printable ==
    << " ", "!", "\"", "#", "$", "%", "&", "'", "(", ")", "*", "+", ",", "-", ".", "/",
       "0", "1", "2", "3", "4", "5", "6", "7", "8", "9", ":", ";", "<", "=", ">", "?",
       "@", "A", "B", "C", "D", "E", "F", "G", "H", "I", "J", "K", "L", "M", "N", "O",
       "P", "Q", "R", "S", "T", "U", "V", "W", "X", "Y", "Z", "[", "\\", "]", "^", "_",
       "<96>", "a", "b", "c", "d", "e", "f", "g", "h", "i", "j", "k", "l", "m", "n", "o",
       "p", "q", "r", "s", "t", "u", "v", "w", "x", "y", "z", "{", "|", "}", "~" >>

Chars == {Printable[i] : i \in 1..Len(Printable)} \cup {"\n", "\t"}

\* ord(c): the code point of an ASCII character
OrdMap ==
    [c \in Chars |->
        IF c = "\n" THEN 10
        ELSE IF c = "\t" THEN 9
        ELSE 31 + (CHOOSE i \in 1..Len(Printable) : Printable[i] = c)]

Ord(c) == OrdMap[c]

Chr(n) == Printable[n - 31]

IsDigit(c) == Ord(c) \in 48..57

IsAlpha(c) == Ord(c) \in 65..90 \/ Ord(c) \in 97..122

\* str.isspace / regex \s on the characters of the model
IsSpace(c) == c \in {" ", "\n", "\t"}

LowerMap == [c \in Chars |-> IF OrdMap[c] \in 65..90 THEN Chr(OrdMap[c] + 32) ELSE c]

\* str.lower()
lower(s) == [i \in 1..Len(s) |-> LowerMap[s[i]]]

Min(a, b) == IF a <= b THEN a ELSE b

\* s[i:] and s[:n] with 1-based i
From(s, i) == SubSeq(s, i, Len(s))

\* str.strip()
strip(s) ==
    LET keep == {i \in 1..Len(s) : ~IsSpace(s[i])}
    IN  IF keep = {} THEN <<>>
        ELSE SubSeq(s, CHOOSE i \in keep : \A j \in keep : i <= j,
                       CHOOSE i \in keep : \A j \in keep : j <= i)

RECURSIVE splitlines(_)
\* str.splitlines(): split at line breaks, no empty last piece
splitlines(s) ==
    IF s = <<>> THEN <<>>
    ELSE LET brk == {i \in 1..Len(s) : s[i] = "\n"}
         IN  IF brk = {} THEN <<s>>
             ELSE LET n == CHOOSE i \in brk : \A j \in brk : i <= j
                  IN  <<SubSeq(s, 1, n - 1)>> \o splitlines(From(s, n + 1))

\* `needle in hay` for str
contains(hay, needle) ==
    \E i \in 0..(Len(hay) - Len(needle)) : SubSeq(hay, i + 1, i + Len(needle)) = needle

\* s < t for str: lexicographic by code point
StrLess(s, t) ==
    \E k \in 1..(Len(t)) :
        /\ k <= Len(s) + 1
        /\ \A j \in 1..(k - 1) : s[j] = t[j]
        /\ (k = Len(s) + 1 \/ Ord(s[k]) < Ord(t[k]))

RECURSIVE sorted(_)
\* sorted(list(S)) for a set of str
sorted(S) ==
    IF S = {} THEN <<>>
    ELSE LET m == CHOOSE x \in S : \A y \in S : y = x \/ StrLess(x, y)
         IN  <<m>> \o sorted(S \ {m})

\* first index >= i whose character fails the class test, Len(s)+1 if none
RunEnd(s, i, InClass(_)) ==
    LET stop == {j \in i..Len(s) : ~InClass(s[j])}
    IN  IF stop = {} THEN Len(s) + 1 ELSE CHOOSE j \in stop : \A k \in stop : j <= k

RECURSIVE IntOf(_)
\* int() of a run of digits
IntOf(ds) ==
    IF ds = <<>> THEN 0 ELSE 10 * IntOf(SubSeq(ds, 1, Len(ds) - 1)) + (Ord(ds[Len(ds)]) - 48)

RECURSIVE Pow10(_)
Pow10(n) == IF n = 0 THEN 1 ELSE 10 * Pow10(n - 1)

RECURSIVE Gcd(_, _)
Gcd(a, b) == IF b = 0 THEN a ELSE Gcd(b, a % b)

\* a ratio in lowest terms, standing for the float num/den
Ratio(num, den) == LET g == Gcd(num, den) IN <<num \div g, den \div g>>

RatioLess(x, y) == x[1] * y[2] < y[1] * x[2]

(***************************************************************************)
(* Profile parser                                                          *)
(***************************************************************************)
SKILL_KEYWORDS ==
    { <<"p", "y", "t", "h", "o", "n">>,
      <<"j", "a", "v", "a">>,
      <<"j", "a", "v", "a", "s", "c", "r", "i", "p", "t">>,
      <<"t", "y", "p", "e", "s", "c", "r", "i", "p", "t">>,
      <<"r", "e", "a", "c", "t">>,
      <<"n", "o", "d", "e">>,
      <<"n", "o", "d", "e", ".", "j", "s">>,
      <<"a", "w", "s">>,
      <<"l", "a", "m", "b", "d", "a">>,
      <<"d", "y", "n", "a", "m", "o", "d", "b">>,
      <<"s", "3">>,
      <<"k", "u", "b", "e", "r", "n", "e", "t", "e", "s">>,
      <<"d", "o", "c", "k", "e", "r">>,
      <<"s", "q", "l">>,
      <<"n", "o", "s", "q", "l">>,
      <<"p", "o", "s", "t", "g", "r", "e", "s">>,
      <<"m", "y", "s", "q", "l">>,
      <<"m", "o", "n", "g", "o", "d", "b">>,
      <<"t", "e", "r", "r", "a", "f", "o", "r", "m">>,
      <<"j", "e", "n", "k", "i", "n", "s">>,
      <<"g", "i", "t">>,
      <<"r", "e", "s", "t">>,
      <<"a", "p", "i">>,
      <<"m", "a", "c", "h", "i", "n", "e", " ", "l", "e", "a", "r", "n", "i", "n", "g">>,
      <<"d", "a", "t", "a", " ", "s", "c", "i", "e", "n", "c", "e">>,
      <<"p", "a", "n", "d", "a", "s">>,
      <<"n", "u", "m", "p", "y">> }

title_keywords ==
    { <<"e", "n", "g", "i", "n", "e", "e", "r">>,
      <<"d", "e", "v", "e", "l", "o", "p", "e", "r">>,
      <<"m", "a", "n", "a", "g", "e", "r">>,
      <<"l", "e", "a", "d">>,
      <<"a", "r", "c", "h", "i", "t", "e", "c", "t">>,
      <<"a", "n", "a", "l", "y", "s", "t">> }

RawTextLimit == 5000

Unknown == <<"U", "n", "k", "n", "o", "w", "n">>

IsLocalChar(c) == IsAlpha(c) \/ IsDigit(c) \/ c \in {".", "_", "%", "+", "-"}

IsDomainChar(c) == IsAlpha(c) \/ IsDigit(c) \/ c \in {".", "-"}

\* the match of [A-Za-z0-9._%+-]+@[A-Za-z0-9.-]+\.[A-Za-z]{2,} that starts at s,
\* as <<start, end>> (end exclusive), or <<>> when the pattern does not match there
EmailAt(t, s) ==
    IF ~IsLocalChar(t[s]) THEN <<>>
    ELSE LET at == RunEnd(t, s, IsLocalChar)
         IN  IF at > Len(t) \/ t[at] # "@" THEN <<>>
             ELSE LET q    == RunEnd(t, at + 1, IsDomainChar)
                      dots == {d \in (at + 2)..(q - 1) :
                                 /\ t[d] = "."
                                 /\ d + 2 <= Len(t)
                                 /\ IsAlpha(t[d + 1])
                                 /\ IsAlpha(t[d + 2])}
                  IN  IF dots = {} THEN <<>>
                      ELSE LET d == CHOOSE x \in dots : \A y \in dots : y <= x
                           IN  <<s, RunEnd(t, d + 1, IsAlpha)>>

\* re.search(...).group(0), or "" without a match
extract_email(text) ==
    LET starts == {s \in 1..Len(text) : EmailAt(text, s) # <<>>}
    IN  IF starts = {} THEN <<>>
        ELSE LET s == CHOOSE x \in starts : \A y \in starts : x <= y
             IN  SubSeq(text, s, EmailAt(text, s)[2] - 1)

year == <<"y", "e", "a", "r">>

\* (?:\.\d+)? after the digits that end before e1: where the number ends
NumberEnd(t, e1) ==
    IF e1 + 1 <= Len(t) /\ t[e1] = "." /\ IsDigit(t[e1 + 1])
    THEN RunEnd(t, e1 + 1, IsDigit)
    ELSE e1

\* float(m) of the number from s to e2, whose integer part ends before e1
NumberValue(t, s, e1, e2) ==
    IF e2 > e1
    THEN Ratio(IntOf(SubSeq(t, s, e1 - 1)) * Pow10(e2 - e1 - 1)
                 + IntOf(SubSeq(t, e1 + 1, e2 - 1)), Pow10(e2 - e1 - 1))
    ELSE <<IntOf(SubSeq(t, s, e1 - 1)), 1>>

\* \+? at w
SkipPlus(t, w) == IF w <= Len(t) /\ t[w] = "+" THEN w + 1 ELSE w

\* years? at w, after a number of value val
YearWord(t, w, val) ==
    IF w + 3 > Len(t) \/ SubSeq(t, w, w + 3) # year THEN <<>>
    ELSE <<IF w + 4 <= Len(t) /\ t[w + 4] = "s" THEN w + 5 ELSE w + 4, val>>

\* \s*\+?\s*years? after the number from s to e2
YearsAfterNumber(t, s, e1, e2) ==
    YearWord(t, RunEnd(t, SkipPlus(t, RunEnd(t, e2, IsSpace)), IsSpace),
             NumberValue(t, s, e1, e2))

YearsAfterDigits(t, s, e1) == YearsAfterNumber(t, s, e1, NumberEnd(t, e1))

\* the match of (\d+(?:\.\d+)?)\s*\+?\s*years? that starts at s, as
\* <<end (exclusive), value of group 1>>, or <<>> when it does not match there
YearsAt(t, s) ==
    IF ~IsDigit(t[s]) THEN <<>> ELSE YearsAfterDigits(t, s, RunEnd(t, s, IsDigit))

RECURSIVE YearsFrom(_, _)
\* re.findall: the non-overlapping matches, left to right
YearsFrom(t, s) ==
    IF s > Len(t) THEN <<>>
    ELSE IF YearsAt(t, s) # <<>>
         THEN <<YearsAt(t, s)[2]>> \o YearsFrom(t, YearsAt(t, s)[1])
         ELSE YearsFrom(t, s + 1)

extract_experience_years(lower_text) ==
    LET years == YearsFrom(lower_text, 1)
        vals  == {years[i] : i \in 1..Len(years)}
    IN  IF years = <<>> THEN <<0, 1>>
        ELSE CHOOSE x \in vals : \A y \in vals : ~RatioLess(x, y)

extract_skills(lower_text) == {skill \in SKILL_KEYWORDS : contains(lower_text, skill)}

extract_titles(lower_text) ==
    LET ls == splitlines(lower_text)
    IN  {strip(ls[i]) : i \in {j \in 1..Len(ls) : \E word \in title_keywords : contains(ls[j], word)}}

StripAll(ls) == [i \in 1..Len(ls) |-> strip(ls[i])]

NonEmpty(ln) == ln # <<>>

\* parse_candidate_profile with the blank lines left in
parse_keeping_blank_lines(text) ==
    LET lines      == StripAll(splitlines(text))
        lower_text == lower(text)
    IN  [ name                   |-> IF lines # <<>> THEN lines[1] ELSE Unknown,
          email                  |-> extract_email(text),
          total_experience_years |-> extract_experience_years(lower_text),
          skills                 |-> sorted(extract_skills(lower_text)),
          titles                 |-> sorted(extract_titles(lower_text)),
          raw_text               |-> SubSeq(text, 1, Min(Len(text), RawTextLimit)) ]

parse_candidate_profile(text) ==
    LET lines      == SelectSeq(StripAll(splitlines(text)), NonEmpty)
        lower_text == lower(text)
    IN  [ name                   |-> IF lines # <<>> THEN lines[1] ELSE Unknown,
          email                  |-> extract_email(text),
          total_experience_years |-> extract_experience_years(lower_text),
          skills                 |-> sorted(extract_skills(lower_text)),
          titles                 |-> sorted(extract_titles(lower_text)),
          raw_text               |-> SubSeq(text, 1, Min(Len(text), RawTextLimit)) ]

(***************************************************************************)
(* Matching engine                                                         *)
(*                                                                         *)
(* A job is a dict (a function on its keys).  An element of required_skills*)
(* is a typed attribute value: [S |-> str] for a string, [N |-> n] for a   *)
(* number.  Strings the code only passes along (bucket, key, title, JSON    *)
(* texts) are TLA+ strings.                                                *)
(***************************************************************************)
TopN == 10

\* dict.get(key, default)
Get(d, key, default) == IF key \in DOMAIN d THEN d[key] ELSE default

\* isinstance(v, str)
IsStr(v) == "S" \in DOMAIN v

\* jaccard_similarity with the shared skills counted twice in the union
jaccard_of_sizes(a, b) ==
    IF a = {} /\ b = {} THEN <<0, 1>>
    ELSE LET intersection == Cardinality(a \cap b)
             union        == Cardinality(a) + Cardinality(b)
         IN  IF union # 0 THEN Ratio(intersection, union) ELSE <<0, 1>>

jaccard_similarity(a, b) ==
    IF a = {} /\ b = {} THEN <<0, 1>>
    ELSE LET intersection == Cardinality(a \cap b)
             union        == Cardinality(a \cup b)
         IN  IF union # 0 THEN Ratio(intersection, union) ELSE <<0, 1>>

\* round(x, 3) of the float num/den.  An exact tie (x * 1000 halfway between two
\* integers) goes to the even neighbour: such a ratio has a lowest-terms
\* denominator of 16, 80, 400 or 2000, and with 16 it is an exact binary float.
round3(x) ==
    LET q == (1000 * x[1]) \div x[2]
        r == (1000 * x[1]) % x[2]
        m == IF 2 * r < x[2] THEN q
             ELSE IF 2 * r > x[2] THEN q + 1
             ELSE IF q % 2 = 0 THEN q ELSE q + 1
    IN  Ratio(m, 1000)

RECURSIVE SortByScoreDescUnstable(_)
\* a sort by score that is not stable: equal scores end in reverse order
SortByScoreDescUnstable(results) ==
    IF results = <<>> THEN <<>>
    ELSE LET rest == SortByScoreDescUnstable(SubSeq(results, 1, Len(results) - 1))
             x    == results[Len(results)]
             n    == Cardinality({i \in 1..Len(rest) : RatioLess(x[2], rest[i][2])})
         IN  SubSeq(rest, 1, n) \o <<x>> \o SubSeq(rest, n + 1, Len(rest))

RECURSIVE SortByScoreDesc(_)
\* list.sort(key=lambda x: x[1], reverse=True): stable, equal scores keep their order
SortByScoreDesc(results) ==
    IF results = <<>> THEN <<>>
    ELSE LET rest == SortByScoreDesc(SubSeq(results, 1, Len(results) - 1))
             x    == results[Len(results)]
             \* x came last: it goes behind every entry whose score is >= its own
             n    == Cardinality({i \in 1..Len(rest) : ~RatioLess(rest[i][2], x[2])})
         IN  SubSeq(rest, 1, n) \o <<x>> \o SubSeq(rest, n + 1, Len(rest))

\* ScoreJob without the test score > 0
ScoreJobAnyScore(candidate_skills, job) ==
    LET rs              == Get(job, "required_skills", <<>>)
        required_skills == {lower(rs[i].S) : i \in {j \in 1..Len(rs) : IsStr(rs[j])}}
        score           == jaccard_similarity(candidate_skills, required_skills)
    IN  IF "jobId" \notin DOMAIN job \/ job.jobId = <<>> \/ required_skills = {} THEN <<>>
        ELSE << <<job.jobId, score>> >>

\* lines 193-203 for one job: the (job_id, score) pairs it appends to results
ScoreJob(candidate_skills, job) ==
    LET rs              == Get(job, "required_skills", <<>>)
        required_skills == {lower(rs[i].S) : i \in {j \in 1..Len(rs) : IsStr(rs[j])}}
        score           == jaccard_similarity(candidate_skills, required_skills)
    IN  IF "jobId" \notin DOMAIN job \/ job.jobId = <<>> \/ required_skills = {} THEN <<>>
        ELSE IF RatioLess(<<0, 1>>, score) THEN << <<job.jobId, score>> >>
        ELSE <<>>

RECURSIVE ScoreJobs(_, _)
ScoreJobs(candidate_skills, jobs) ==
    IF jobs = <<>> THEN <<>>
    ELSE ScoreJob(candidate_skills, Head(jobs)) \o ScoreJobs(candidate_skills, Tail(jobs))

compute_matches(candidate, jobs) ==
    LET skills           == Get(candidate, "skills", <<>>)
        candidate_skills == {lower(skills[i]) : i \in 1..Len(skills)}
        results          == SortByScoreDesc(ScoreJobs(candidate_skills, jobs))
        top              == SubSeq(results, 1, Min(Len(results), TopN))
    IN  [i \in 1..Len(top) |-> [jobId |-> top[i][1], score |-> round3(top[i][2])]]

(***************************************************************************)
(* Collaborators: uuid, json, Textract, DynamoDB                           *)
(***************************************************************************)
RECURSIVE Digits(_)
\* str(n) for n >= 0
Digits(n) == IF n < 10 THEN <<Chr(48 + n)>> ELSE Digits(n \div 10) \o <<Chr(48 + (n % 10))>>

\* an identifier that repeats from one invocation to the next
uuid_of_record(draw) == <<"u", "-">> \o Digits(0) \o <<"-">> \o Digits(draw[2])

\* str(uuid.uuid4()).  uuid4 values do not repeat: a value is named after the
\* draw that produced it, <<p, i>> for record i of processor invocation p and
\* <<0, n>> for the n-th draw of the API
uuid4(draw) == <<"u", "-">> \o Digits(draw[1]) \o <<"-">> \o Digits(draw[2])

\* json.dumps({"bucket": ..., "key": ...})
json_dumps(d) == "{\"bucket\": \"" \o d.bucket \o "\", \"key\": \"" \o d.key \o "\"}"

Python == <<"P", "y", "t", "h", "o", "n">>
aws    == <<"a", "w", "s">>

\* the JSON texts of the model and the values they decode to
JsonTable ==
    {<<json_dumps(d), d>> : d \in [bucket : {"resumes", ""}, key : {"cv1.pdf", "cv2.pdf", "gone.pdf"}]}
    \cup
    { <<"{}", <<>> >>,
      <<"{\"key\": \"cv2.pdf\"}", [key |-> "cv2.pdf"]>>,
      <<"{\"bucket\": \"resumes\"}", [bucket |-> "resumes"]>>,
      <<"{\"title\": \"Dev\", \"required_skills\": [\"Python\", \"aws\"]}",
        [title |-> "Dev", required_skills |-> <<[S |-> Python], [S |-> aws]>>]>>,
      <<"{\"title\": \"Ops\", \"description\": \"on call\"}",
        [title |-> "Ops", description |-> "on call"]>>,
      <<"{\"required_skills\": [\"aws\"]}", [required_skills |-> <<[S |-> aws]>>]>> }

\* json.loads(s): the decoded value, or JSONDecodeError
json_loads(s) ==
    IF \E e \in JsonTable : e[1] = s
    THEN [ok |-> TRUE, value |-> (CHOOSE e \in JsonTable : e[1] = s)[2]]
    ELSE [ok |-> FALSE]

\* the documents in S3 and the blocks Textract recognises in them
Documents ==
    [d \in {<<"resumes", "cv1.pdf">>, <<"resumes", "cv2.pdf">>} |->
        IF d[2] = "cv1.pdf"
        THEN << [BlockType |-> "PAGE"],
                [BlockType |-> "LINE", Text |-> <<"J", "o", " ", "R", "o", "e">>],
                [BlockType |-> "WORD", Text |-> <<"J", "o">>],
                [BlockType |-> "LINE", Text |-> <<"j", "@", "x", ".", "i", "o", " ", "2", " ", "y", "e", "a", "r", "s">>],
                [BlockType |-> "LINE", Text |-> <<>>],
                [BlockType |-> "LINE", Text |-> <<"A", "W", "S", " ", "L", "e", "a", "d">>] >>
        ELSE << [BlockType |-> "PAGE"], [BlockType |-> "LINE"] >>]

\* textract.detect_document_text: the response, or an exception for a document
\* that is not there
detect_document_text(bucket, key) ==
    IF <<bucket, key>> \in DOMAIN Documents
    THEN [ok |-> TRUE, Blocks |-> Documents[<<bucket, key>>]]
    ELSE [ok |-> FALSE]

RECURSIVE join(_, _)
\* sep.join(list)
join(sep, list) ==
    IF list = <<>> THEN <<>>
    ELSE IF Len(list) = 1 THEN list[1]
    ELSE list[1] \o sep \o join(sep, Tail(list))

IsTextLine(block) ==
    /\ Get(block, "BlockType", "") = "LINE"
    /\ Get(block, "Text", <<>>) # <<>>

BlockText(blocks) == [i \in 1..Len(blocks) |-> blocks[i].Text]

\* lines 106-113, applied to the response of a successful call
extract_text_with_textract(response) ==
    join(<<"\n">>, BlockText(SelectSeq(Get(response, "Blocks", <<>>), IsTextLine)))

\* Table.put_item on the candidate table, a function from candidateId to item
put_item(table, item) ==
    [k \in DOMAIN table \cup {item.candidateId} |->
        IF k = item.candidateId THEN item ELSE table[k]]

\* Table.put_item on the job table, a sequence in scan order: an item with a
\* new key lands at position pos of the scan order
put_job(table, item, pos) ==
    IF \E k \in 1..Len(table) : table[k].jobId = item.jobId
    THEN [k \in 1..Len(table) |-> IF table[k].jobId = item.jobId THEN item ELSE table[k]]
    ELSE SubSeq(table, 1, pos - 1) \o <<item>> \o SubSeq(table, pos, Len(table))

(***************************************************************************)
(* State                                                                   *)
(***************************************************************************)
VARIABLES
    env,              \* the environment variables of the deployment
    candidate_table,  \* DynamoDB candidate table: candidateId -> item
    job_table,        \* DynamoDB job table: the items in scan order
    queue,            \* SQS: the message bodies sent so far
    uuids,            \* how many uuid4 values the API has drawn
    proc,             \* resume processor: one record per invocation
    last,             \* the last API or enqueue invocation: event, answer, table calls
    call              \* a direct call of the parser or of the matching engine

vars == <<env, candidate_table, job_table, queue, uuids, proc, last, call>>

NInv == 2

MaxBatch == 2

MaxJobs == 1

MaxQueue == 2

MaxRecords == 2

Inv == 1..NInv

\* uuid4 values that the model lets the API draw
UuidCap == MaxJobs

\* the test with "and" in the place of "or"
AnyTableConfigured == env.CANDIDATE_TABLE_NAME # "" \/ env.JOB_TABLE_NAME # ""

\* line 66: not (not candidate_table or not job_table)
TablesConfigured == env.CANDIDATE_TABLE_NAME # "" /\ env.JOB_TABLE_NAME # ""

Idle ==
    [ pc |-> "idle", event |-> <<>>, i |-> 0, bucket |-> "", key |-> "",
      candidate_profile |-> <<>>, jobs |-> <<>>, trace |-> <<>>, result |-> "" ]

NoCall == [fn |-> "none"]

InitSystem ==
    /\ env \in [ RESUME_BUCKET_NAME   : {"", "resumes"},
                 CANDIDATE_TABLE_NAME : {"", "candidates"},
                 JOB_TABLE_NAME       : {"", "jobs"},
                 RESUME_QUEUE_URL     : {"", "https://sqs/resumes"} ]
    /\ candidate_table = <<>>
    /\ job_table = <<>>
    /\ queue = <<>>
    /\ uuids = 0
    /\ proc = [p \in Inv |-> Idle]
    /\ last = <<>>

\* a deployment with its default bucket and its queue, the tables named or not
Init ==
    /\ InitSystem
    /\ call = NoCall
    /\ env.RESUME_BUCKET_NAME # ""
    /\ env.RESUME_QUEUE_URL # ""

InitHandlers == InitSystem /\ call = NoCall

(***************************************************************************)
(* Resume processor: lambda_handler, one step per call to a collaborator.  *)
(* trace is the history of the invocation: what became of each record.     *)
(***************************************************************************)
Records(event) == Get(event, "Records", <<>>)

\* the SQS records a batch is made of
SqsRecords ==
    { [body |-> json_dumps([bucket |-> "resumes", key |-> "cv1.pdf"])],
      [body |-> json_dumps([bucket |-> "resumes", key |-> "gone.pdf"])],
      [body |-> "{\"key\": \"cv2.pdf\"}"],
      [body |-> "{\"bucket\": \"resumes\"}"],
      [body |-> "{\"bucket\": "] }

\* the records of the concurrent invocations: one that is processed, one
\* whose document is not there, one without a key
PipelineRecords ==
    { [body |-> json_dumps([bucket |-> "resumes", key |-> "cv1.pdf"])],
      [body |-> json_dumps([bucket |-> "resumes", key |-> "gone.pdf"])],
      [body |-> "{\"bucket\": \"resumes\"}"] }

\* the events of at most n records out of a set of records
SqsEvents(records, n) ==
    {[eventSource |-> "aws:sqs"]}
    \cup UNION {{[Records |-> rs] : rs \in [1..k -> records]} : k \in 0..n}

\* the test of line 74 without its second half
NotBucket(bucket, key) == bucket = ""

\* line 74: not bucket or not key
NotBucketOrNotKey(bucket, key) == bucket = "" \/ key = ""

RECURSIVE Advance(_, _, _, _, _)
\* lines 69-75 and 94, from record i on, up to the next call of Textract: the
\* malformed records are passed over, then the handler stands before the
\* extraction of a record, or has returned, or has raised on a body that is
\* not JSON.  bucket and key are the locals as last assigned.
Advance(records, i, default_bucket, bucket0, key0) ==
    IF i > Len(records)
    THEN [pc |-> "returned", i |-> i, bucket |-> bucket0, key |-> key0,
          trace |-> <<>>, result |-> "200"]
    ELSE LET decoded == json_loads(Get(records[i], "body", "{}"))
         IN  IF ~decoded.ok
             THEN [pc |-> "raised", i |-> i, bucket |-> bucket0, key |-> key0,
                   trace |-> << <<i, "FAILED">> >>, result |-> "JSONDecodeError"]
             ELSE LET body   == decoded.value
                      bucket == IF Get(body, "bucket", "") # "" THEN body.bucket
                                ELSE default_bucket
                      key    == Get(body, "key", "")
                  IN  IF NotBucketOrNotKey(bucket, key)
                      THEN LET r == Advance(records, i + 1, default_bucket, bucket, key)
                           IN  [r EXCEPT !.trace = << <<i, "SKIPPED">> >> \o @]
                      ELSE [pc |-> "textract", i |-> i, bucket |-> bucket, key |-> key,
                            trace |-> << <<i, "RECEIVED">> >>, result |-> ""]

\* the locals of an invocation that has ended are gone
Ended(rec) ==
    IF rec.pc \in {"returned", "raised"}
    THEN [rec EXCEPT !.i = 0, !.bucket = "", !.key = "",
                     !.candidate_profile = <<>>, !.jobs = <<>>]
    ELSE rec

\* the invocation record once the loop has moved on from record i - 1
Enter(rec, i, default_bucket) ==
    LET a == Advance(Records(rec.event), i, default_bucket, rec.bucket, rec.key)
    IN  Ended([rec EXCEPT !.pc = a.pc, !.i = a.i, !.bucket = a.bucket, !.key = a.key,
                          !.trace = @ \o a.trace, !.result = a.result])

\* an exception leaves the handler while record i is being processed
Raise(rec, exc) ==
    Ended([rec EXCEPT !.pc = "raised", !.result = exc,
                      !.trace = Append(@, <<rec.i, "FAILED">>)])

RECURSIVE Sum(_, _)
Sum(f, S) == IF S = {} THEN 0 ELSE LET x == CHOOSE y \in S : TRUE IN f[x] + Sum(f, S \ {x})

\* the records handed to the invocations so far
Delivered == Sum([q \in Inv |-> Len(Records(proc[q].event))], Inv)

\* lines 66-75: the invocation starts and runs up to its first call of Textract;
\* the invocations are numbered in the order of their start
Invoke(p, event) ==
    /\ proc[p].pc = "idle"
    /\ \A q \in Inv : q < p => proc[q].pc # "idle"
    /\ Delivered + Len(Records(event)) <= MaxRecords
    /\ proc' = [proc EXCEPT ![p] =
                  IF ~TablesConfigured
                  THEN [@ EXCEPT !.pc = "raised", !.event = event, !.result = "RuntimeError"]
                  ELSE Enter([@ EXCEPT !.event = event], 1, env.RESUME_BUCKET_NAME)]
    /\ UNCHANGED <<env, candidate_table, job_table, queue, uuids, last, call>>

\* lines 77-84: Textract, the parser, the new candidateId
ExtractAndParse(p) ==
    /\ proc[p].pc = "textract"
    /\ LET response == detect_document_text(proc[p].bucket, proc[p].key)
       IN  IF ~response.ok
           THEN proc' = [proc EXCEPT ![p] = Raise(@, "TextractError")]
           ELSE LET full_text == extract_text_with_textract(response)
                    profile   == parse_candidate_profile(full_text)
                IN  proc' = [proc EXCEPT
                       ![p].pc = "scan",
                       ![p].candidate_profile =
                           [candidateId |-> uuid4(<<p, proc[p].i>>),
                            sourceObjectKey |-> proc[p].key] @@ profile,
                       ![p].trace = @ \o << <<proc[p].i, "EXTRACTED">>,
                                            <<proc[p].i, "PARSED">> >>]
    /\ UNCHANGED <<env, candidate_table, job_table, queue, uuids, last, call>>

\* list_all_jobs: the items of one scan
list_all_jobs(table) == table

\* ScanAndMatch with the jobs scanned for the first record only
ScanOnceAndMatch(p) ==
    /\ proc[p].pc = "scan"
    /\ \E db_ok \in BOOLEAN :
         IF ~db_ok
         THEN proc' = [proc EXCEPT ![p] = Raise(@, "ClientError")]
         ELSE LET jobs == IF proc[p].i = 1 THEN list_all_jobs(job_table) ELSE proc[p].jobs
              IN  proc' = [proc EXCEPT
                      ![p].pc = "put",
                      ![p].jobs = jobs,
                      ![p].candidate_profile =
                          [matches |-> compute_matches(proc[p].candidate_profile, jobs)] @@ @,
                      ![p].trace = @ \o << <<proc[p].i, "SCANNED">>,
                                           <<proc[p].i, "MATCHED">> >>]
    /\ UNCHANGED <<env, candidate_table, job_table, queue, uuids, last, call>>

\* lines 87-89: the scan of the job table and the matching
ScanAndMatch(p) ==
    /\ proc[p].pc = "scan"
    /\ \E db_ok \in BOOLEAN :
         IF ~db_ok
         THEN proc' = [proc EXCEPT ![p] = Raise(@, "ClientError")]
         ELSE LET jobs == list_all_jobs(job_table)
              IN  proc' = [proc EXCEPT
                      ![p].pc = "put",
                      ![p].jobs = jobs,
                      ![p].candidate_profile =
                          [matches |-> compute_matches(proc[p].candidate_profile, jobs)] @@ @,
                      ![p].trace = @ \o << <<proc[p].i, "SCANNED">>,
                                           <<proc[p].i, "MATCHED">> >>]
    /\ UNCHANGED <<env, candidate_table, job_table, queue, uuids, last, call>>

\* line 92, then lines 69-75 for the records that follow: the write of the
\* candidate and the way to the next call of Textract
PutCandidate(p) ==
    /\ proc[p].pc = "put"
    /\ \E db_ok \in BOOLEAN :
         IF ~db_ok
         THEN /\ proc' = [proc EXCEPT ![p] = Raise(@, "ClientError")]
              /\ UNCHANGED candidate_table
         ELSE /\ candidate_table' = put_item(candidate_table, proc[p].candidate_profile)
              /\ proc' = [proc EXCEPT ![p] =
                            Enter([@ EXCEPT !.trace = Append(@, <<proc[p].i, "PERSISTED">>)],
                                  proc[p].i + 1, env.RESUME_BUCKET_NAME)]
    /\ UNCHANGED <<env, job_table, queue, uuids, last, call>>

(***************************************************************************)
(* API handler                                                             *)
(***************************************************************************)
UpperMap == [c \in Chars |-> IF OrdMap[c] \in 97..122 THEN Chr(OrdMap[c] - 32) ELSE c]

\* str.upper()
upper(s) == [i \in 1..Len(s) |-> UpperMap[s[i]]]

\* str.startswith(prefix)
startswith(s, prefix) == Len(s) >= Len(prefix) /\ SubSeq(s, 1, Len(prefix)) = prefix

RECURSIVE split(_, _)
\* str.split(sep) for a one-character separator
split(s, sep) ==
    LET brk == {i \in 1..Len(s) : s[i] = sep}
    IN  IF brk = {} THEN <<s>>
        ELSE LET n == CHOOSE i \in brk : \A j \in brk : i <= j
             IN  <<SubSeq(s, 1, n - 1)>> \o split(From(s, n + 1), sep)

\* list.index(x)
index(list, x) == CHOOSE i \in 1..Len(list) : list[i] = x /\ \A j \in 1..(i - 1) : list[j] # x

InList(list, x) == \E i \in 1..Len(list) : list[i] = x

GET == <<"G", "E", "T">>

POST == <<"P", "O", "S", "T">>

slash_jobs == <<"/", "j", "o", "b", "s">>

candidates == <<"c", "a", "n", "d", "i", "d", "a", "t", "e", "s">>

report == <<"r", "e", "p", "o", "r", "t">>

\* what one invocation of the API handler leaves behind
Outcome(status, body, ops, jobs, n) ==
    [response |-> [statusCode |-> status, body |-> body], ops |-> ops, job_table |-> jobs, uuids |-> n]

\* _response(status_code, body); body is the value handed to json.dumps
_response(status_code, body, ops, jobs, n) == Outcome(status_code, body, ops, jobs, n)

InternalError(ops, jobs, n) == _response(500, [message |-> "Internal error"], ops, jobs, n)

\* _parse_body: {} for no body and for a body that is not JSON
_parse_body(body_str) ==
    IF body_str = "" THEN <<>>
    ELSE IF json_loads(body_str).ok THEN json_loads(body_str).value ELSE <<>>

list_jobs(jobs, n, db_ok) ==
    IF ~db_ok THEN InternalError(<<"job_table.scan">>, jobs, n)
    ELSE _response(200, [items |-> jobs], <<"job_table.scan">>, jobs, n)

create_job(body, jobs, n, pos, db_ok) ==
    LET title == Get(body, "title", "")
        item  == [ jobId           |-> uuid4(<<0, n + 1>>),
                   title           |-> title,
                   description     |-> Get(body, "description", ""),
                   required_skills |-> Get(body, "required_skills", <<>>) ]
    IN  IF title = "" THEN _response(400, [message |-> "title is required"], <<>>, jobs, n)
        ELSE IF ~db_ok THEN InternalError(<<"job_table.put_item">>, jobs, n + 1)
        ELSE _response(201, item, <<"job_table.put_item">>, put_job(jobs, item, pos), n + 1)

Minimal(it) ==
    [ candidateId            |-> it.candidateId,
      name                   |-> it.name,
      email                  |-> it.email,
      total_experience_years |-> it.total_experience_years,
      skills                 |-> it.skills,
      matches                |-> it.matches ]

\* the items of the candidate scan come in no particular order: a set
list_candidates(cands, jobs, n, db_ok) ==
    IF ~db_ok THEN InternalError(<<"candidate_table.scan">>, jobs, n)
    ELSE _response(200, [items |-> {Minimal(cands[k]) : k \in DOMAIN cands}],
                   <<"candidate_table.scan">>, jobs, n)

get_candidate(candidate_id, cands, jobs, n, db_ok) ==
    IF ~db_ok THEN InternalError(<<"candidate_table.get_item">>, jobs, n)
    ELSE IF candidate_id \notin DOMAIN cands
         THEN _response(404, [message |-> "Candidate not found"],
                        <<"candidate_table.get_item">>, jobs, n)
         ELSE _response(200, cands[candidate_id], <<"candidate_table.get_item">>, jobs, n)

get_candidate_report(candidate_id, cands, jobs, n, db_ok) ==
    IF ~db_ok THEN InternalError(<<"candidate_table.get_item">>, jobs, n)
    ELSE IF candidate_id \notin DOMAIN cands
         THEN _response(404, [message |-> "Candidate not found"],
                        <<"candidate_table.get_item">>, jobs, n)
         ELSE [ response |-> [ statusCode |-> 200, body |-> cands[candidate_id],
                               attachment |-> candidate_id ],
                ops |-> <<"candidate_table.get_item">>, job_table |-> jobs, uuids |-> n ]

\* lambda_handler of the API: the response, the table calls made, and the job
\* table and uuid count afterwards
ApiHandler(event, e, cands, jobs, n, pos, db_ok) ==
    IF e.CANDIDATE_TABLE_NAME = "" \/ e.JOB_TABLE_NAME = ""
    THEN _response(500, [message |-> "Tables not configured"], <<>>, jobs, n)
    ELSE
    LET path        == IF Get(event, "path", <<>>) # <<>> THEN event.path
                       ELSE Get(event, "resource", <<>>)
        http_method == upper(Get(event, "httpMethod", GET))
        parts       == SelectSeq(split(path, "/"), NonEmpty)
        rest        == SubSeq(parts, index(parts, candidates) + 1, Len(parts))
    IN  IF startswith(path, slash_jobs) /\ http_method = GET
        THEN list_jobs(jobs, n, db_ok)
        ELSE IF startswith(path, slash_jobs) /\ http_method = POST
        THEN create_job(_parse_body(Get(event, "body", "")), jobs, n, pos, db_ok)
        ELSE IF http_method # GET
        THEN _response(404, [message |-> "Not found"], <<>>, jobs, n)
        ELSE IF parts # <<>> /\ parts[Len(parts)] = candidates /\ Len(parts) <= 2
        THEN list_candidates(cands, jobs, n, db_ok)
        ELSE IF InList(parts, candidates) /\ Len(rest) = 1
        THEN get_candidate(rest[1], cands, jobs, n, db_ok)
        ELSE IF InList(parts, candidates) /\ Len(rest) = 2 /\ rest[2] = report
        THEN get_candidate_report(rest[1], cands, jobs, n, db_ok)
        ELSE _response(404, [message |-> "Not found"], <<>>, jobs, n)

\* the request paths of the model
ApiPaths ==
    { <<"/", "j", "o", "b", "s">>, <<"/", "j", "o", "b", "s", "/", "7">>, <<"/", "j", "o", "b", "s", "i", "t", "e">>, <<"/", "v", "1", "/", "j", "o", "b", "s">>,
      <<"/", "c", "a", "n", "d", "i", "d", "a", "t", "e", "s">>, <<"/", "v", "1", "/", "c", "a", "n", "d", "i", "d", "a", "t", "e", "s">>, <<"/", "a", "/", "b", "/", "c", "a", "n", "d", "i", "d", "a", "t", "e", "s">>,
      <<"/", "c", "a", "n", "d", "i", "d", "a", "t", "e", "s", "/", "u", "-", "1">>, <<"/", "c", "a", "n", "d", "i", "d", "a", "t", "e", "s", "/", "u", "-", "9">>, <<"/", "c", "a", "n", "d", "i", "d", "a", "t", "e", "s", "/", "u", "-", "1", "/", "r", "e", "p", "o", "r", "t">>,
      <<"/", "c", "a", "n", "d", "i", "d", "a", "t", "e", "s", "/", "u", "-", "1", "/", "n", "o", "t", "e", "s">>, <<"/", "c", "a", "n", "d", "i", "d", "a", "t", "e", "s", "/", "u", "-", "1", "/", "r", "e", "p", "o", "r", "t", "/", "x">>, <<"/", "h", "e", "a", "l", "t", "h">>, <<"/">> }

DevBody == "{\"title\": \"Dev\", \"required_skills\": [\"Python\", \"aws\"]}"

ApiBodies ==
    { "",
      DevBody,
      "{\"title\": \"Ops\", \"description\": \"on call\"}",
      "{\"required_skills\": [\"aws\"]}",
      "{\"bucket\": " }

ApiEvents ==
    {[path |-> pa, httpMethod |-> m] : pa \in ApiPaths, m \in {GET, <<"g", "e", "t">>, <<"D", "E", "L", "E", "T", "E">>}}
    \cup {[path |-> pa] : pa \in {<<"/", "j", "o", "b", "s">>, <<"/", "c", "a", "n", "d", "i", "d", "a", "t", "e", "s">>}}
    \cup {[resource |-> <<"/", "c", "a", "n", "d", "i", "d", "a", "t", "e", "s">>, httpMethod |-> GET, path |-> <<>>]}
    \cup {[path |-> pa, httpMethod |-> POST, body |-> b] :
              pa \in {<<"/", "j", "o", "b", "s">>, <<"/", "j", "o", "b", "s", "/", "7">>, <<"/", "c", "a", "n", "d", "i", "d", "a", "t", "e", "s">>}, b \in ApiBodies}
    \cup {[path |-> <<"/", "j", "o", "b", "s">>, httpMethod |-> POST]}

ApiRequest(event) ==
    /\ \E pos \in 1..(Len(job_table) + 1), db_ok \in BOOLEAN :
         LET out == ApiHandler(event, env, candidate_table, job_table, uuids, pos, db_ok)
         IN  /\ Len(out.job_table) <= MaxJobs
             /\ out.uuids <= UuidCap
             /\ last' = [handler |-> "api", event |-> event,
                         response |-> out.response, ops |-> out.ops]
             /\ job_table' = out.job_table
             /\ uuids' = out.uuids
    /\ UNCHANGED <<env, candidate_table, queue, proc, call>>

(***************************************************************************)
(* Enqueue handler                                                         *)
(***************************************************************************)
S3Records ==
    { [s3 |-> [bucket |-> [name |-> "resumes"], object |-> [key |-> "cv1.pdf"]]],
      [s3 |-> [bucket |-> [name |-> "resumes"], object |-> [key |-> "gone.pdf"]]],
      [s3 |-> [bucket |-> [name |-> "resumes"], object |-> <<>>]],
      [s3 |-> [object |-> [key |-> "cv1.pdf"]]],
      [eventName |-> "ObjectCreated:Put"] }

S3Events ==
    {[source |-> "test"]}
    \cup UNION {{[Records |-> rs] : rs \in [1..n -> S3Records]} : n \in 0..MaxBatch}

RECURSIVE Messages(_)
\* lines 31-46: the bodies sent for the records, in order
Messages(records) ==
    IF records = <<>> THEN <<>>
    ELSE LET s3_info == Get(Head(records), "s3", <<>>)
             bucket  == Get(Get(s3_info, "bucket", <<>>), "name", "")
             key     == Get(Get(s3_info, "object", <<>>), "key", "")
         IN  (IF bucket = "" \/ key = "" THEN <<>>
              ELSE <<json_dumps([bucket |-> bucket, key |-> key])>>)
             \o Messages(Tail(records))

\* lambda_handler of the enqueue function: the result and the messages sent
EnqueueHandler(event, e) ==
    IF e.RESUME_QUEUE_URL = ""
    THEN [result |-> "RuntimeError", sent |-> <<>>]
    ELSE [result |-> "200", sent |-> Messages(Records(event))]

Enqueue(event) ==
    /\ LET out == EnqueueHandler(event, env)
       IN  /\ Len(queue) + Len(out.sent) <= MaxQueue
           /\ last' = [handler |-> "enqueue", event |-> event, result |-> out.result,
                       sent |-> out.sent]
           /\ queue' = queue \o out.sent
    /\ UNCHANGED <<env, candidate_table, job_table, uuids, proc, call>>

(***************************************************************************)
(* The ingestion pipeline: concurrent invocations of the processor while   *)
(* jobs are posted through the API                                         *)
(***************************************************************************)
Processor ==
    \E p \in Inv :
        \/ \E event \in SqsEvents(PipelineRecords, Min(MaxBatch, MaxRecords - Delivered)) : Invoke(p, event)
        \/ ExtractAndParse(p)
        \/ ScanAndMatch(p)
        \/ PutCandidate(p)

JobPosts == {[path |-> slash_jobs, httpMethod |-> POST, body |-> DevBody]}

\* every such request draws a uuid4
JobPosted == uuids < UuidCap /\ \E event \in JobPosts : ApiRequest(event)

Next == Processor \/ JobPosted

Spec == Init /\ [][Next]_vars

(***************************************************************************)
(* The API on its own, over a candidate table that is empty or holds the   *)
(* candidate of cv1.pdf as the processor writes it                         *)
(***************************************************************************)
SeedCandidate ==
    [matches |-> <<>>]
    @@ [candidateId |-> uuid4(<<1, 1>>), sourceObjectKey |-> "cv1.pdf"]
    @@ parse_candidate_profile(
           extract_text_with_textract(detect_document_text("resumes", "cv1.pdf")))

InitApi ==
    /\ env \in [ RESUME_BUCKET_NAME   : {"resumes"},
                 CANDIDATE_TABLE_NAME : {"", "candidates"},
                 JOB_TABLE_NAME       : {"", "jobs"},
                 RESUME_QUEUE_URL     : {"https://sqs/resumes"} ]
    /\ candidate_table \in {<<>>} \cup {put_item(<<>>, SeedCandidate) : x \in {y \in {1} : TablesConfigured}}
    /\ job_table = <<>>
    /\ queue = <<>>
    /\ uuids = 0
    /\ proc = [p \in Inv |-> Idle]
    /\ last = <<>>
    /\ call = NoCall

Api == \E event \in ApiEvents : ApiRequest(event)

SpecApi == InitApi /\ [][Api]_vars

(***************************************************************************)
(* The three handlers of a deployment, each on its own: one invocation of  *)
(* one of them                                                             *)
(***************************************************************************)
OneProcessor ==
    \/ last = <<>> /\ \E event \in SqsEvents(SqsRecords, MaxBatch) : Invoke(1, event)
    \/ ExtractAndParse(1)
    \/ ScanAndMatch(1)
    \/ PutCandidate(1)

OneRequest ==
    last = <<>> /\ proc[1] = Idle /\ \E event \in ApiEvents : ApiRequest(event)

OneEnqueue ==
    last = <<>> /\ proc[1] = Idle /\ \E event \in S3Events : Enqueue(event)

NextHandlers == OneProcessor \/ OneRequest \/ OneEnqueue

SpecHandlers == InitHandlers /\ [][NextHandlers]_vars

(***************************************************************************)
(* Direct calls of the parser and of the matching engine                   *)
(***************************************************************************)
MaxChunks == 3

MaxMatchJobs == 2

MaxRuns == 2

MaxRun == 6

\* the system around a direct call: deployed, nothing ingested yet
Deployed ==
    /\ InitSystem
    /\ env.RESUME_BUCKET_NAME # ""
    /\ TablesConfigured
    /\ env.RESUME_QUEUE_URL # ""

RECURSIVE Concat(_)
Concat(ss) == IF ss = <<>> THEN <<>> ELSE Head(ss) \o Concat(Tail(ss))

SeqsUpTo(S, n) == UNION {[1..k -> S] : k \in 0..n}

\* the pieces the texts of the model are made of
TextChunks == { <<" ">>, <<"\n">>, <<"\t">>, Unknown, <<"A", "l">>, <<"a", "@", "b", ".", "i", "o">>, <<"3", " ", "Y", "e", "a", "r", "s">>, <<"A", "W", "S", " ", "L", "e", "a", "d">> }

Texts == {Concat(cs) : cs \in SeqsUpTo(TextChunks, MaxChunks)}

InitParse ==
    /\ Deployed
    /\ call \in {[fn |-> "parse_candidate_profile", text |-> t, state |-> "called", ret |-> <<>>] :
                    t \in Texts}

ParseCall ==
    /\ call.fn = "parse_candidate_profile"
    /\ call.state = "called"
    /\ call' = [call EXCEPT !.state = "returned", !.ret = parse_candidate_profile(call.text)]
    /\ UNCHANGED <<env, candidate_table, job_table, queue, uuids, proc, last>>

SpecParse == InitParse /\ [][ParseCall]_vars

\* n distinct skills that are no letters: s1, s2, ...
Fillers(n) == [k \in 1..n |-> [S |-> <<"s">> \o Digits(k)]]

\* required_skills lists
SkillLists ==
    { << [S |-> <<"a">>] >>,
      << [S |-> <<"B">>], [S |-> <<"c">>] >>,
      << [S |-> <<"c">>] >>,
      << [S |-> <<"b">>], [N |-> 7], [S |-> <<"A">>], [S |-> <<"a">>] >>,
      << >>,
      << [N |-> 7] >>,
      << [S |-> <<"a">>] >> \o Fillers(32),
      << [S |-> <<"a">>] >> \o Fillers(33),
      << [S |-> <<"a">>] >> \o Fillers(2000) }

\* a job before it has its place in the list: how its jobId is set, and its
\* required_skills
JobTemplates ==
    {<<"uuid", rs>> : rs \in SkillLists}
    \cup {<<"absent", << [S |-> <<"a">>] >> >>, <<"empty", << [S |-> <<"a">>] >> >>, <<"uuid">>}

\* the job at place k of the list
MkJob(t, k) ==
    IF Len(t) = 1 THEN [jobId |-> uuid4(<<0, k>>), title |-> "Dev"]
    ELSE IF t[1] = "uuid" THEN [jobId |-> uuid4(<<0, k>>), required_skills |-> t[2]]
    ELSE IF t[1] = "empty" THEN [jobId |-> <<>>, required_skills |-> t[2]]
    ELSE [required_skills |-> t[2]]

MkJobs(ts) == [k \in 1..Len(ts) |-> MkJob(ts[k], k)]

\* candidates as the processor builds them, and some it does not build
Candidates ==
    { [skills |-> << <<"a">>, <<"b">> >>],
      [skills |-> << <<"A">>, <<"a">> >>],
      [name |-> <<"A", "l">>] }

\* short lists of all sorts of jobs
MatchInputs ==
    {[candidate |-> c, jobs |-> MkJobs(ts)] :
        c \in Candidates, ts \in SeqsUpTo(JobTemplates, MaxMatchJobs)}

\* the templates of the long lists: jobs the candidate matches
RankTemplates ==
    {<<"uuid", rs>> : rs \in
        { << [S |-> <<"a">>] >>,
          << [S |-> <<"a">>] >> \o Fillers(32),
          << [S |-> <<"a">>] >> \o Fillers(33) }}

RECURSIVE Expand(_)
\* runs of equal templates, written out
Expand(runs) ==
    IF runs = <<>> THEN <<>>
    ELSE [k \in 1..Head(runs)[2] |-> Head(runs)[1]] \o Expand(Tail(runs))

\* long lists: up to MaxRuns runs of up to MaxRun jobs that require the same skills
RankInputs ==
    {[candidate |-> [skills |-> << <<"a">>, <<"b">> >>], jobs |-> MkJobs(Expand(runs))] :
        runs \in SeqsUpTo(RankTemplates \X (1..MaxRun), MaxRuns)}

InitMatch ==
    /\ Deployed
    /\ call \in {[fn |-> "compute_matches", candidate |-> in.candidate, jobs |-> in.jobs,
                  state |-> "called", ret |-> <<>>] : in \in MatchInputs \cup RankInputs}

MatchCall ==
    /\ call.fn = "compute_matches"
    /\ call.state = "called"
    /\ call' = [call EXCEPT !.state = "returned",
                            !.ret = compute_matches(call.candidate, call.jobs)]
    /\ UNCHANGED <<env, candidate_table, job_table, queue, uuids, proc, last>>

SpecMatch == InitMatch /\ [][MatchCall]_vars

(***************************************************************************)
(* Properties of the matching engine and of the parser                     *)
(***************************************************************************)
Returned(fn) == call.fn = fn /\ call.state = "returned"

\* the candidate's skills and a job's required skills, in lower case
CandSkills(c) == LET sk == Get(c, "skills", <<>>) IN {lower(sk[i]) : i \in 1..Len(sk)}

ReqSkills(j) ==
    LET rs == Get(j, "required_skills", <<>>)
    IN  {lower(rs[i].S) : i \in {n \in 1..Len(rs) : "S" \in DOMAIN rs[n]}}

HasId(j) == "jobId" \in DOMAIN j /\ j.jobId # <<>>

\* a job the matching may report: it has a jobId and shares a skill with the candidate
Eligible(c, j) == HasId(j) /\ CandSkills(c) \cap ReqSkills(j) # {}

\* <<|C n R|, |C u R|>> for a candidate and a job
JaccardOf(c, j) ==
    LET C == CandSkills(c)
        R == ReqSkills(j)
    IN  <<Cardinality(C \cap R), Cardinality(C \cup R)>>

\* the same for every job of the call, by its place in the list
Jaccards == [k \in 1..Len(call.jobs) |-> JaccardOf(call.candidate, call.jobs[k])]

\* x < y and x = y for two such pairs, as ratios
JaccardLess(x, y) == x[1] * y[2] < y[1] * x[2]

JaccardEqual(x, y) == x[1] * y[2] = y[1] * x[2]

\* the places in call.jobs of the jobs with this jobId
Places(id) == {k \in 1..Len(call.jobs) : HasId(call.jobs[k]) /\ call.jobs[k].jobId = id}

Place(id) == CHOOSE k \in Places(id) : TRUE

EligiblePlaces == {k \in 1..Len(call.jobs) : Eligible(call.candidate, call.jobs[k])}

ReturnedPlaces == {Place(call.ret[n].jobId) : n \in 1..Len(call.ret)}

Abs(x) == IF x < 0 THEN -x ELSE x

\* score is the ratio i/u rounded to a whole number of thousandths
IsRounded3(score, i, u) ==
    /\ 1000 % score[2] = 0
    /\ 2 * Abs(1000 * i - score[1] * (1000 \div score[2]) * u) <= u

\* what C4 says apart from the order of ties: at most 10 entries, of eligible
\* jobs, each once, scores non-increasing, no better job left out
RankedTopTen ==
    LET jac      == Jaccards
        returned == ReturnedPlaces
        eligible == {k \in 1..Len(call.jobs) : HasId(call.jobs[k]) /\ jac[k][1] > 0}
    IN  /\ Len(call.ret) = Min(10, Cardinality(eligible))
        /\ \A n \in 1..Len(call.ret) : Places(call.ret[n].jobId) # {}
        /\ returned \subseteq eligible
        /\ Cardinality(returned) = Len(call.ret)
        /\ \A n \in 1..(Len(call.ret) - 1) : ~RatioLess(call.ret[n].score, call.ret[n + 1].score)
        /\ \A k \in returned, e \in eligible \ returned : ~JaccardLess(jac[k], jac[e])

\* the place in call.jobs of every returned entry
ReturnedAt == [n \in 1..Len(call.ret) |-> Place(call.ret[n].jobId)]

\* C4 (as amended): compute_matches returns at most 10 entries, the best-scoring
\* eligible jobs, with non-increasing reported scores, and two returned entries
\* whose jobs have the same Jaccard score before rounding come in the order of
\* their jobs in the input
C4_TopTenStable ==
    Returned("compute_matches") =>
        /\ RankedTopTen
        /\ LET jac == Jaccards
               at  == ReturnedAt
           IN  \A m, n \in 1..Len(call.ret) :
                   (m < n /\ JaccardEqual(jac[at[m]], jac[at[n]])) => at[m] < at[n]

\* C4 as stated: ... and two returned entries with the same reported score come
\* in the order of their jobs in the input
C4_AsStated ==
    Returned("compute_matches") =>
        /\ RankedTopTen
        /\ LET at == ReturnedAt
           IN  \A m, n \in 1..Len(call.ret) :
                   (m < n /\ call.ret[m].score = call.ret[n].score) => at[m] < at[n]

\* more than 10 eligible jobs, 10 returned, with ties among them and a job of a
\* lower score left out
C4_Witness ==
    /\ Returned("compute_matches")
    /\ Cardinality(EligiblePlaces) > 10
    /\ Len(call.ret) = 10
    /\ call.ret[1].score # call.ret[10].score
    /\ call.ret[1].score = call.ret[2].score
    /\ call.ret[9].score = call.ret[10].score

\* C5 (as amended): every returned entry carries the jobId of an input job that
\* has a jobId and a required skill in common with the candidate, so a Jaccard
\* score above 0 before rounding; the reported score is not negative
C5_OnlyEligible ==
    Returned("compute_matches") =>
        \A n \in 1..Len(call.ret) :
            /\ call.ret[n].jobId # <<>>
            /\ Places(call.ret[n].jobId) # {}
            /\ Eligible(call.candidate, call.jobs[Place(call.ret[n].jobId)])
            /\ ~RatioLess(call.ret[n].score, <<0, 1>>)

\* C5 as stated: ... and a reported score strictly greater than 0
C5_AsStated ==
    Returned("compute_matches") =>
        \A n \in 1..Len(call.ret) :
            /\ call.ret[n].jobId # <<>>
            /\ Places(call.ret[n].jobId) # {}
            /\ Eligible(call.candidate, call.jobs[Place(call.ret[n].jobId)])
            /\ RatioLess(<<0, 1>>, call.ret[n].score)

\* one job returned while jobs without jobId, without required skills or
\* without a common skill were in the list
C5_Witness ==
    /\ Returned("compute_matches")
    /\ Len(call.ret) = 1
    /\ Len(call.jobs) = 2
    /\ \E k \in 1..2 : ~Eligible(call.candidate, call.jobs[k])

\* C6: the reported score of a returned job is |C n R| / |C u R| for the
\* lower-cased skill sets, rounded to thousandths; two empty sets score 0
C6_JaccardRounded ==
    /\ jaccard_similarity({}, {}) = <<0, 1>>
    /\ Returned("compute_matches") =>
          \A n \in 1..Len(call.ret) :
              /\ Places(call.ret[n].jobId) # {}
              /\ LET x == JaccardOf(call.candidate, call.jobs[Place(call.ret[n].jobId)])
                 IN  IsRounded3(call.ret[n].score, x[1], x[2])

\* candidate {a, b} against a job that requires {B, c}: 0.333
C6_Witness ==
    /\ Returned("compute_matches")
    /\ call.candidate = [skills |-> << <<"a">>, <<"b">> >>]
    /\ Len(call.jobs) = 1
    /\ Get(call.jobs[1], "required_skills", <<>>) = << [S |-> <<"B">>], [S |-> <<"c">>] >>
    /\ Len(call.ret) = 1
    /\ call.ret[1].score = <<333, 1000>>

\* the text has a line that is not blank
HasNonBlankLine(text) == \E i \in 1..Len(text) : ~IsSpace(text[i])

\* the first line that is not blank, without the white space around it
FirstNonBlankLine(text) ==
    LET a == CHOOSE i \in 1..Len(text) :
                 ~IsSpace(text[i]) /\ \A j \in 1..(i - 1) : IsSpace(text[j])
        e == CHOOSE j \in a..Len(text) :
                 /\ \A k \in a..j : text[k] # "\n"
                 /\ (j = Len(text) \/ text[j + 1] = "\n")
        b == CHOOSE i \in a..e : ~IsSpace(text[i]) /\ \A k \in (i + 1)..e : IsSpace(text[k])
    IN  SubSeq(text, a, b)

ProfileFields == {"name", "email", "total_experience_years", "skills", "titles", "raw_text"}

\* C7 (as amended): parse_candidate_profile returns, for any text, a profile with
\* name, email, total_experience_years, skills, titles and raw_text; the name is
\* "Unknown" when the text has no non-blank line, and otherwise the first
\* non-blank line, trimmed (which may itself read "Unknown")
C7_NameOfProfile ==
    Returned("parse_candidate_profile") =>
        /\ DOMAIN call.ret = ProfileFields
        /\ call.ret.name = IF HasNonBlankLine(call.text) THEN FirstNonBlankLine(call.text)
                           ELSE Unknown

\* C7 as stated: ... and the name is "Unknown" if and only if the text has no
\* non-blank line
C7_AsStated ==
    Returned("parse_candidate_profile") =>
        /\ DOMAIN call.ret = ProfileFields
        /\ (call.ret.name = Unknown) <=> ~HasNonBlankLine(call.text)
        /\ HasNonBlankLine(call.text) => call.ret.name = FirstNonBlankLine(call.text)

\* a text that starts with blank lines and white space: the name is the first
\* line that has something on it
C7_Witness ==
    /\ Returned("parse_candidate_profile")
    /\ Len(call.text) > 3
    /\ call.text[1] = "\n"
    /\ call.text[2] = " "
    /\ call.ret.name = <<"A", "l">>


(***************************************************************************)
(* Properties of the handlers                                              *)
(***************************************************************************)
\* the record i of the batch of invocation p, and what its body decodes to
Record(p, i) == Records(proc[p].event)[i]

Decoded(p, i) == json_loads(Get(Record(p, i), "body", "{}"))

LacksKey(p, i) == Decoded(p, i).ok /\ Get(Decoded(p, i).value, "key", "") = ""

LacksBucket(p, i) == Decoded(p, i).ok /\ Get(Decoded(p, i).value, "bucket", "") = ""

\* what the trace of invocation p says of record i, in order
StepsOf(p, i) ==
    LET OfRecord(e) == e[1] = i
        es          == SelectSeq(proc[p].trace, OfRecord)
    IN  [k \in 1..Len(es) |-> es[k][2]]

Happened(p, i, step) == \E k \in 1..Len(proc[p].trace) : proc[p].trace[k] = <<i, step>>

\* the invocation stands in the processing of record i
Processing(p, i) == proc[p].pc \in {"textract", "scan", "put"} /\ proc[p].i = i

\* the messages written so far, over all invocations
Persisted ==
    {<<p, i>> \in Inv \X (1..MaxBatch) : i <= Len(Records(proc[p].event)) /\ Happened(p, i, "PERSISTED")}

\* C1: the candidate table holds one record per message that reached its write,
\* under an identifier of its own, with the document of that message; a record
\* once written is never changed or removed
C1_OneWritePerMessage ==
    /\ [](/\ Cardinality(DOMAIN candidate_table) = Cardinality(Persisted)
          /\ \A m \in Persisted :
                /\ uuid4(m) \in DOMAIN candidate_table
                /\ candidate_table[uuid4(m)].sourceObjectKey = Decoded(m[1], m[2]).value.key)
    /\ [][\A id \in DOMAIN candidate_table :
            id \in DOMAIN candidate_table' /\ candidate_table'[id] = candidate_table[id]]_vars

\* two invocations have each written the candidate of the same document
C1_Witness ==
    /\ Cardinality(DOMAIN candidate_table) = 2
    /\ \A id \in DOMAIN candidate_table : candidate_table[id].sourceObjectKey = "cv1.pdf"
    /\ \A p \in {1, 2} : Happened(p, 1, "PERSISTED")

\* the document of record i is one Textract can read
Extractable(p, i) ==
    /\ Decoded(p, i).ok
    /\ ~LacksKey(p, i)
    /\ detect_document_text(IF LacksBucket(p, i) THEN env.RESUME_BUCKET_NAME
                            ELSE Decoded(p, i).value.bucket,
                            Decoded(p, i).value.key).ok

\* C2: an invocation that ended on a failed extraction has written the candidate
\* of every other message of its batch whose document can be extracted
C2_AsStated ==
    \A p \in Inv :
        proc[p].result = "TextractError" =>
            \A i \in 1..Len(Records(proc[p].event)) :
                Extractable(p, i) => Happened(p, i, "PERSISTED")

\* C3: a message without key, or without bucket where no default bucket is set,
\* is passed over: nothing is done for it, nothing fails on it, no candidate is
\* written for it, and the record after it is taken up; a message without
\* bucket alone is processed with the default bucket
C3_MalformedSkipped ==
    \A p \in Inv : \A i \in 1..Len(Records(proc[p].event)) :
        /\ (LacksKey(p, i) \/ (LacksBucket(p, i) /\ env.RESUME_BUCKET_NAME = "")) =>
              /\ \A k \in 1..Len(StepsOf(p, i)) : StepsOf(p, i)[k] = "SKIPPED"
              /\ ~Processing(p, i)
              /\ uuid4(<<p, i>>) \notin DOMAIN candidate_table
              /\ (Happened(p, i, "SKIPPED") /\ i < Len(Records(proc[p].event))
                    => StepsOf(p, i + 1) # <<>>)
        /\ (LacksBucket(p, i) /\ ~LacksKey(p, i) /\ env.RESUME_BUCKET_NAME # "") =>
              /\ ~Happened(p, i, "SKIPPED")
              /\ (Processing(p, i) =>
                    /\ proc[p].bucket = env.RESUME_BUCKET_NAME
                    /\ proc[p].key = Decoded(p, i).value.key)
              /\ (Happened(p, i, "PERSISTED") =>
                    candidate_table[uuid4(<<p, i>>)].sourceObjectKey = Decoded(p, i).value.key)

\* a message without key was passed over and the message after it, which has no
\* bucket, was processed with the default bucket and written
C3_Witness ==
    /\ proc[1].pc = "returned"
    /\ Len(Records(proc[1].event)) = 2
    /\ LacksKey(1, 1) /\ Happened(1, 1, "SKIPPED")
    /\ LacksBucket(1, 2) /\ Happened(1, 2, "PERSISTED")
    /\ candidate_table[uuid4(<<1, 2>>)].sourceObjectKey = "cv2.pdf"

\* C8: where a table is not configured the processor ends in an error before
\* any extraction, scan or write and the API answers 500 without touching a
\* table; where the queue is not configured the enqueue function ends in an
\* error and sends nothing
C8_RefusesUnconfigured ==
    /\ (env.CANDIDATE_TABLE_NAME = "" \/ env.JOB_TABLE_NAME = "") =>
          /\ \A p \in Inv :
                /\ proc[p].pc \in {"idle", "raised"}
                /\ proc[p].pc = "raised" => proc[p].result = "RuntimeError"
                /\ proc[p].trace = <<>>
          /\ candidate_table = <<>>
          /\ job_table = <<>>
          /\ (last # <<>> /\ last.handler = "api") =>
                last.response.statusCode = 500 /\ last.ops = <<>>
    /\ (env.RESUME_QUEUE_URL = "" /\ last # <<>> /\ last.handler = "enqueue") =>
          last.result = "RuntimeError" /\ last.sent = <<>> /\ queue = <<>>

\* the processor was handed a full batch where the job table is not configured
C8_Witness ==
    /\ env.CANDIDATE_TABLE_NAME # "" /\ env.JOB_TABLE_NAME = ""
    /\ proc[1].pc = "raised"
    /\ Len(Records(proc[1].event)) = 2
    /\ Extractable(1, 1)

\* the five routes of the API, the method in either case
IsId(parts, k) == k <= Len(parts) /\ parts[k] # <<>>

Route(event) ==
    LET path   == Get(event, "path", <<>>)
        method == upper(Get(event, "httpMethod", GET))
        parts  == split(path, "/")
    IN  \/ path = slash_jobs /\ method \in {GET, POST}
        \/ method = GET /\ path = <<"/">> \o candidates
        \/ method = GET /\ Len(parts) = 3 /\ parts[1] = <<>> /\ parts[2] = candidates
                        /\ IsId(parts, 3)
        \/ method = GET /\ Len(parts) = 4 /\ parts[1] = <<>> /\ parts[2] = candidates
                        /\ IsId(parts, 3) /\ parts[4] = report

\* C9: with the tables configured, a request that is none of the five routes is
\* answered 404 and touches no table
C9_AsStated ==
    (/\ last # <<>> /\ last.handler = "api"
     /\ env.CANDIDATE_TABLE_NAME # "" /\ env.JOB_TABLE_NAME # ""
     /\ "path" \in DOMAIN last.event /\ "httpMethod" \in DOMAIN last.event
     /\ ~Route(last.event))
    => last.response.statusCode = 404 /\ last.ops = <<>>

StepOrder == <<"RECEIVED", "EXTRACTED", "PARSED", "SCANNED", "MATCHED", "PERSISTED">>

IsPrefix(s, t) == Len(s) <= Len(t) /\ s = SubSeq(t, 1, Len(s))

\* the steps of one message: passed over, or the steps in order, cut short or
\* not by a failure
InStepOrder(s) ==
    \/ s = <<"SKIPPED">>
    \/ IsPrefix(s, StepOrder)
    \/ /\ s # <<>> /\ s[Len(s)] = "FAILED"
       /\ IsPrefix(SubSeq(s, 1, Len(s) - 1), StepOrder)
       /\ Len(s) <= Len(StepOrder)

\* the messages of a batch one after the other, from the first on
OneAtATime(trace) ==
    /\ trace # <<>> => trace[1][1] = 1
    /\ \A k \in 1..(Len(trace) - 1) :
          \/ trace[k + 1][1] = trace[k][1]
          \/ /\ trace[k + 1][1] = trace[k][1] + 1
             /\ trace[k][2] \in {"PERSISTED", "SKIPPED"}

\* C10: in an invocation the messages are handled one at a time in batch order,
\* each through RECEIVED, EXTRACTED, PARSED, (SCANNED,) MATCHED, PERSISTED; the
\* jobs a message is matched against are those in the job table at its own
\* scan; a candidate is written only by the invocation that has matched it,
\* with those matches
C10_StepOrder ==
    /\ [](\A p \in Inv :
            /\ OneAtATime(proc[p].trace)
            /\ \A i \in 1..Len(Records(proc[p].event)) : InStepOrder(StepsOf(p, i)))
    /\ [][\A p \in Inv :
            (proc[p].pc = "scan" /\ proc'[p].pc = "put") =>
                /\ proc'[p].jobs = job_table
                /\ proc'[p].candidate_profile.matches =
                      compute_matches(proc[p].candidate_profile, job_table)]_vars
    /\ [][candidate_table' # candidate_table =>
            \E p \in Inv :
                /\ proc[p].pc = "put"
                /\ StepsOf(p, proc[p].i) = SubSeq(StepOrder, 1, 5)
                /\ candidate_table' = put_item(candidate_table, proc[p].candidate_profile)
                /\ proc[p].candidate_profile.matches =
                      compute_matches(proc[p].candidate_profile, proc[p].jobs)]_vars

\* an invocation has written both messages of its batch, the first matched
\* against an empty job table and the second against the job posted meanwhile
C10_Witness ==
    \E p \in Inv :
        /\ proc[p].pc = "returned"
        /\ Happened(p, 1, "PERSISTED") /\ Happened(p, 2, "PERSISTED")
        /\ candidate_table[uuid4(<<p, 1>>)].matches = <<>>
        /\ candidate_table[uuid4(<<p, 2>>)].matches # <<>>
=============================================================================
